---- MODULE Spec2Model ----
(***************************************************************************)
(* Model of recy-api: the audit-creation workflow of AuditService (both    *)
(* variants found in the sources) and the global AllExceptionsFilter.      *)
(*                                                                         *)
(* JavaScript values are tagged records, so that `typeof`, `instanceof`,   *)
(* object spread and JSON serialisation are computed as the code computes  *)
(* them and not assumed.                                                   *)
(***************************************************************************)
EXTENDS Integers, Sequences, FiniteSets, TLC

VARIABLES
    variant,    \* which AuditService class is deployed: "helpers" | "tryCatch"
    reports,    \* RecordStore: report id -> [audited, submittedBy]
    audits,     \* RecordStore: set of audit rows
    ulidNext,   \* source of ulid(): number of ids generated so far
    pc,         \* per request: position inside createAudit
    dto,        \* per request: the CreateAuditDto of the running call
    auditId,    \* per request: the id generated before prisma.audit.create
    ret,        \* per request: what the awaited store call resolved/rejected with
    result,     \* per request: what createAudit returned or threw
    calls,      \* per request: store operations issued by the running call, in order
    alone,      \* per request: no other createAudit call overlapped the running one
    nCalls,     \* number of createAudit calls started so far
    written,    \* RecordStore: the writes of createAudit calls it executed, in order
    first,      \* comparison of the variants: how the run under the other class ended
    handled,    \* filter: the exception given to AllExceptionsFilter.catch
    response,   \* filter: [sent, status, body] of the last response
    log,        \* filter: records passed to logger.error, in order
    clock,      \* filter: wall clock read by new Date()
    nHandled,   \* filter: number of catch() calls so far
    classified, \* filter: [exception, meta] of every catch() call, in order
    piped,      \* pipe: [value, outcome] of every ZodValidationPipe.transform call
    mut,        \* per request: the running updateAudit / deleteAudit call
    nMut        \* number of updateAudit / deleteAudit calls started so far

vars == << variant, reports, audits, ulidNext, pc, dto, auditId, ret, result,
           calls, alone, nCalls, written, first, handled, response, log, clock,
           nHandled,
           classified, piped, mut, nMut >>

svcVars == << variant, reports, audits, pc, dto, auditId, ret, result,
              calls, alone, nCalls, written, first >>

filterVars == << handled, response, log, clock, nHandled, classified >>

pipeVars == << piped >>

mutVars == << mut, nMut >>

-----------------------------------------------------------------------------
(* Bounds of the model *)

MaxCalls == 2       \* createAudit calls started in one run
MaxHandled == 2     \* exceptions given to the filter in one run
MaxPiped == 3       \* request bodies given to the validation pipe in one run
MaxMutations == 2   \* updateAudit / deleteAudit calls started in one run

-----------------------------------------------------------------------------
(* JavaScript values *)

Str(s) == [t |-> "string", s |-> s]
Num(n) == [t |-> "number", n |-> n]
Bool(b) == [t |-> "boolean", b |-> b]
Null == [t |-> "null"]
Undefined == [t |-> "undefined"]
Obj(f) == [t |-> "object", o |-> f]
Arr(a) == [t |-> "array", a |-> a]
Date(ms) == [t |-> "date", ms |-> ms]
Ulid(n) == [t |-> "string", ulid |-> n]

EmptyObj == [k \in {} |-> Undefined]

\* typeof v === 'object'
TypeofObject(v) == v.t \in {"object", "array", "null", "date"}

\* v.k, and v?.k
Get(v, k) ==
    IF v.t = "object" /\ "o" \in DOMAIN v /\ k \in DOMAIN v.o THEN v.o[k] ELSE Undefined

\* a || b
Truthy(v) ==
    CASE v.t \in {"null", "undefined"} -> FALSE
      [] v.t = "string" /\ "s" \in DOMAIN v -> v.s # ""
      [] v.t = "number" -> v.n # 0
      [] v.t = "boolean" -> v.b
      [] OTHER -> TRUE

\* `${v}` in a template string; an array is joined with commas
RECURSIVE TemplateString(_)
TemplateString(v) ==
    CASE v.t = "undefined" -> "undefined"
      [] v.t = "null" -> "null"
      [] v.t = "array" ->
           IF Len(v.a) = 0 THEN ""
           ELSE IF Len(v.a) = 1 THEN TemplateString(v.a[1])
           ELSE TemplateString(v.a[1]) \o "," \o TemplateString(Arr(Tail(v.a)))
      [] v.t = "string" /\ "s" \in DOMAIN v -> v.s
      [] OTHER -> "[object Object]"

\* { ...a, ...b } on property maps
Spread(a, b) ==
    [k \in DOMAIN a \cup DOMAIN b |-> IF k \in DOMAIN b THEN b[k] ELSE a[k]]

\* the own enumerable properties { ...v } copies
Props(v) ==
    CASE v.t = "object" /\ "o" \in DOMAIN v -> v.o
      [] v.t = "array" ->
           [k \in {ToString(i - 1) : i \in 1..Len(v.a)} |->
              v.a[CHOOSE i \in 1..Len(v.a) : ToString(i - 1) = k]]
      [] OTHER -> EmptyObj

\* JSON.stringify of an object drops the properties whose value is undefined
Json(body) ==
    [k \in {j \in DOMAIN body : body[j].t # "undefined"} |-> body[k]]

-----------------------------------------------------------------------------
(* Failures: what a `throw` carries *)

ZodError(issues) == [cls |-> "ZodError", errors |-> issues]

PrismaClientKnownRequestError(message, code, meta) ==
    [cls |-> "PrismaClientKnownRequestError", message |-> message,
     code |-> code, meta |-> meta]

Error(message) == [cls |-> "Error", message |-> message]

\* HttpException.createBody of @nestjs/common, as the exceptions thrown in the
\* sources use it: a string becomes {statusCode, message, error}, an object
\* is kept as it is.
createBody(objectOrError, description, statusCode) ==
    IF objectOrError.t = "object" THEN objectOrError
    ELSE Obj([k \in {"statusCode", "message", "error"} |->
                CASE k = "statusCode" -> Num(statusCode)
                  [] k = "message" -> objectOrError
                  [] OTHER -> Str(description)])

HttpException(resp, status) ==
    [cls |-> "HttpException", sub |-> "HttpException", status |-> status,
     response |-> resp]

BadRequestException(objectOrError) ==
    [cls |-> "HttpException", sub |-> "BadRequestException", status |-> 400,
     response |-> createBody(objectOrError, "Bad Request", 400)]

NotFoundException(objectOrError) ==
    [cls |-> "HttpException", sub |-> "NotFoundException", status |-> 404,
     response |-> createBody(objectOrError, "Not Found", 404)]

InternalServerErrorException(objectOrError) ==
    [cls |-> "HttpException", sub |-> "InternalServerErrorException",
     status |-> 500,
     response |-> createBody(objectOrError, "Internal Server Error", 500)]

INTERNAL_SERVER_ERROR == 500
BAD_REQUEST == 400
NOT_FOUND == 404

-----------------------------------------------------------------------------
(* AllExceptionsFilter *)

GenericMessage ==
    Str("Internal server error, contact support and provide the errorId")

handleZodError(exception) ==
    [status |-> BAD_REQUEST,
     message |-> Obj([k \in {"errors"} |->
        Arr([i \in 1..Len(exception.errors) |->
               Obj([f \in {"message", "path"} |->
                      IF f = "message" THEN exception.errors[i].message
                      ELSE exception.errors[i].path])])]),
     details |-> Null]

handlePrismaError_Conflict409(exception) ==
    [status |-> CASE exception.code = "P2025" -> NOT_FOUND
                  [] exception.code = "P2002" -> 409
                  [] OTHER -> BAD_REQUEST,
     message |->
        CASE exception.code = "P2002" ->
               Str("Unique constraint failed on the field: "
                   \o TemplateString(Get(exception.meta, "target")))
          [] exception.code = "P2003" ->
               Str("Foreign key constraint failed on the field: "
                   \o TemplateString(Get(exception.meta, "field_name")))
          [] exception.code = "P2025" ->
               Str("Record not found for the specified operation.")
          [] OTHER -> Str("Database error occurred"),
     details |-> Null]

handlePrismaError_MissingAsBadRequest(exception) ==
    [status |-> BAD_REQUEST,
     message |->
        CASE exception.code = "P2002" ->
               Str("Unique constraint failed on the field: "
                   \o TemplateString(Get(exception.meta, "target")))
          [] exception.code = "P2003" ->
               Str("Foreign key constraint failed on the field: "
                   \o TemplateString(Get(exception.meta, "field_name")))
          [] exception.code = "P2025" ->
               Str("Record not found for the specified operation.")
          [] OTHER -> Str("Database error occurred"),
     details |-> Null]

handlePrismaError(exception) ==
    [status |-> IF exception.code = "P2025" THEN NOT_FOUND ELSE BAD_REQUEST,
     message |->
        CASE exception.code = "P2002" ->
               Str("Unique constraint failed on the field: "
                   \o TemplateString(Get(exception.meta, "target")))
          [] exception.code = "P2003" ->
               Str("Foreign key constraint failed on the field: "
                   \o TemplateString(Get(exception.meta, "field_name")))
          [] exception.code = "P2025" ->
               Str("Record not found for the specified operation.")
          [] OTHER -> Str("Database error occurred"),
     details |-> Null]

\* The HttpException branch of getResponseMetadata.
httpMetadata(exception) ==
    IF exception.sub = "BadRequestException"
       /\ TypeofObject(exception.response)
    THEN [status |-> exception.status,
          message |-> Get(exception.response, "message"),
          details |->
             IF Truthy(Get(exception.response, "details"))
             THEN Get(exception.response, "details") ELSE Null]
    ELSE [status |-> exception.status,
          message |-> exception.response,
          details |-> Null]

getResponseMetadata_EchoesFailure(exception) ==
    CASE exception.cls = "ZodError" -> handleZodError(exception)
      [] exception.cls = "PrismaClientKnownRequestError" ->
           handlePrismaError(exception)
      [] exception.cls = "HttpException" -> httpMetadata(exception)
      [] OTHER -> [status |-> INTERNAL_SERVER_ERROR,
                   message |-> Str(exception.message),
                   details |-> Null]

getResponseMetadata_FallbackBeforeHttp(exception) ==
    CASE exception.cls = "ZodError" -> handleZodError(exception)
      [] exception.cls = "PrismaClientKnownRequestError" ->
           handlePrismaError(exception)
      [] OTHER -> [status |-> INTERNAL_SERVER_ERROR,
                   message |-> GenericMessage,
                   details |-> Null]

getResponseMetadata_CountsCalls(exception) ==
    CASE exception.cls = "ZodError" -> handleZodError(exception)
      [] exception.cls = "PrismaClientKnownRequestError" ->
           handlePrismaError(exception)
      [] exception.cls = "HttpException" ->
           [httpMetadata(exception) EXCEPT
              !.details = IF nHandled = 0 THEN @ ELSE Num(nHandled)]
      [] OTHER -> [status |-> INTERNAL_SERVER_ERROR,
                   message |-> GenericMessage,
                   details |-> Null]

getResponseMetadata(exception) ==
    CASE exception.cls = "ZodError" -> handleZodError(exception)
      [] exception.cls = "PrismaClientKnownRequestError" ->
           handlePrismaError(exception)
      [] exception.cls = "HttpException" -> httpMetadata(exception)
      [] OTHER -> [status |-> INTERNAL_SERVER_ERROR,
                   message |-> GenericMessage,
                   details |-> Null]

generateErrorId == Ulid(ulidNext)

buildBaseResponseBody(status, request, message, details) ==
    [k \in {"statusCode", "timestamp", "path", "message", "details"} |->
        CASE k = "statusCode" -> Num(status)
          [] k = "timestamp" -> Date(clock)
          [] k = "path" -> Str(request.url)
          [] k = "message" -> message
          [] OTHER -> details]

\* The body returned, with the records given to logger.error on the way.
build500Error(exception, responseBody) ==
    [body |-> Spread(responseBody,
                     [k \in {"errorId"} |-> generateErrorId]),
     logged |-> << [level |-> "error", errorId |-> generateErrorId,
                    err |-> exception] >>]

buildResponseBody_AnyServerError(status, request, message, details, exception) ==
    IF status < INTERNAL_SERVER_ERROR
    THEN [body |-> IF TypeofObject(message)
                   THEN Spread(buildBaseResponseBody(status, request, message,
                                                     details),
                               Props(message))
                   ELSE buildBaseResponseBody(status, request, message, details),
          logged |-> << >>]
    ELSE build500Error(exception,
                       buildBaseResponseBody(status, request, message, details))

buildResponseBody_MergeAlways(status, request, message, details, exception) ==
    IF status # INTERNAL_SERVER_ERROR
    THEN [body |-> IF TypeofObject(message)
                   THEN Spread(buildBaseResponseBody(status, request, message,
                                                     details),
                               Props(message))
                   ELSE buildBaseResponseBody(status, request, message, details),
          logged |-> << >>]
    ELSE build500Error(exception,
                       IF TypeofObject(message)
                       THEN Spread(buildBaseResponseBody(status, request,
                                                         message, details),
                                   Props(message))
                       ELSE buildBaseResponseBody(status, request, message,
                                                  details))

buildResponseBody_NoMerge(status, request, message, details, exception) ==
    IF status # INTERNAL_SERVER_ERROR
    THEN [body |-> buildBaseResponseBody(status, request, message, details),
          logged |-> << >>]
    ELSE build500Error(exception,
                       buildBaseResponseBody(status, request, message, details))

buildResponseBody(status, request, message, details, exception) ==
    IF status # INTERNAL_SERVER_ERROR
    THEN [body |-> IF TypeofObject(message)
                   THEN Spread(buildBaseResponseBody(status, request, message,
                                                     details),
                               Props(message))
                   ELSE buildBaseResponseBody(status, request, message, details),
          logged |-> << >>]
    ELSE build500Error(exception,
                       buildBaseResponseBody(status, request, message, details))

-----------------------------------------------------------------------------
(* The filter as an operation: AllExceptionsFilter.catch *)

Urls == {"/v1/audits", "/v1/audits/1"}

Issues ==
    { [message |-> Str("Required"), path |-> Arr(<< Str("reportId") >>)],
      [message |-> Str("Expected boolean"), path |-> Arr(<< Str("audited") >>)],
      [message |-> Str("Invalid input"), path |-> Arr(<< >>)] }

ZodErrors ==
    { ZodError(<< i >>) : i \in Issues }
      \cup { ZodError(<< i, j >>) : i \in Issues, j \in Issues }

UniqueMeta == Obj([k \in {"target"} |-> Arr(<< Str("auditorId"), Str("reportId") >>)])
ForeignKeyMeta == Obj([k \in {"field_name"} |-> Str("Audit_reportId_fkey")])

PrismaErrors ==
    { PrismaClientKnownRequestError("Unique constraint failed", "P2002", UniqueMeta),
      PrismaClientKnownRequestError("Invalid prisma.audit.create() invocation",
                                    "P2002", UniqueMeta),
      PrismaClientKnownRequestError("Unique constraint failed", "P2002", Undefined),
      PrismaClientKnownRequestError("Foreign key constraint failed", "P2003",
                                    ForeignKeyMeta),
      PrismaClientKnownRequestError("Record to update not found", "P2025",
                                    Undefined),
      PrismaClientKnownRequestError("Timed out fetching a connection", "P2024",
                                    Undefined) }

InternalTexts == {"connect ECONNREFUSED 10.0.0.5:5432", "Unknown error"}

PlainErrors ==
    { Error(m) : m \in InternalTexts }
      \cup { [cls |-> c, message |-> m] :
                c \in {"TypeError", "PrismaClientUnknownRequestError"},
                m \in InternalTexts }

ValidationPayload ==
    Obj([k \in {"message", "details"} |->
           IF k = "message" THEN Str("Validation failed")
           ELSE Arr(<< Obj([f \in {"field", "message"} |->
                              IF f = "field" THEN Str("reportId")
                              ELSE Str("Required")]) >>)])

\* What the global ValidationPipe of main.ts throws: message is an array.
ClassValidatorPayload ==
    Obj([k \in {"statusCode", "message", "error"} |->
           CASE k = "statusCode" -> Num(400)
             [] k = "message" -> Arr(<< Str("reportId should not be empty") >>)
             [] OTHER -> Str("Bad Request")])

\* A payload that brings its own statusCode and path.
ForeignPayload ==
    Obj([k \in {"statusCode", "message", "path"} |->
           CASE k = "statusCode" -> Num(400)
             [] k = "message" -> Str("Conflict")
             [] OTHER -> Str("/internal/audits")])

HttpErrors ==
    { BadRequestException(Str(m)) : m \in {"Bad input"} \cup InternalTexts }
      \cup { BadRequestException(ValidationPayload),
              BadRequestException(ClassValidatorPayload) }
      \cup { NotFoundException(Str(m)) : m \in {"Audit with ID 1 not found."} }
      \cup { InternalServerErrorException(Str(m)) :
               m \in {"An unexpected error occurred."} \cup InternalTexts }
      \cup { HttpException(Str(m), st) :
               m \in {"Forbidden"} \cup InternalTexts,
               st \in {403, 409, 500, 501, 503, 504} }
      \cup { HttpException(createBody(Str(m), "Service Unavailable", st), st) :
               m \in InternalTexts, st \in {503, 504} }
      \cup { HttpException(ForeignPayload, 409) }

Failures == ZodErrors \cup PrismaErrors \cup HttpErrors \cup PlainErrors

NoResponse == [sent |-> 0]

\* What catch(exception, host) does: classify, build the body, send it once.
Answer(exception, request) ==
    LET meta == getResponseMetadata(exception)
        built == buildResponseBody(meta.status, request, meta.message,
                                   meta.details, exception)
    IN  /\ nHandled < MaxHandled
        /\ handled' = exception
        /\ response' = [sent |-> 1, status |-> meta.status,
                        body |-> Json(built.body)]
        /\ log' = log \o built.logged
        /\ ulidNext' = ulidNext + Len(built.logged)
        /\ clock' = clock + 1
        /\ nHandled' = nHandled + 1
        /\ classified' = Append(classified,
                                [exception |-> exception, meta |-> meta])

\* An exception thrown anywhere below the controllers reaches the filter.
Catch(exception, request) ==
    /\ Answer(exception, request)
    /\ UNCHANGED << svcVars, pipeVars, mutVars >>

-----------------------------------------------------------------------------
(* RecordStore and AuditService.createAudit *)

Reqs == {"q1", "q2"}
AuditorIds == {"a1", "a2"}
Variants == {"helpers", "tryCatch"}

\* The report ids requests name; "r2" is stored and named by no request.
RequestedIds == {"r1", "r404"}

CreateAuditDtos ==
    [reportId : RequestedIds, audited : BOOLEAN, auditorId : AuditorIds]

Running(q) == pc[q] \notin {"idle", "done", "failed"}

Resolved(v) == [ok |-> TRUE, value |-> v]
Rejected(e) == [ok |-> FALSE, error |-> e]
NoRet == [ok |-> TRUE, value |-> Undefined]
NoResult == [kind |-> "none"]
Returned(v) == [kind |-> "returned", value |-> v]
Threw(e) == [kind |-> "threw", error |-> e]

\* What any statement can be rejected with for reasons outside the data.
StoreFaults ==
    { Error("connect ECONNREFUSED 10.0.0.5:5432"),
      PrismaClientKnownRequestError("Timed out fetching a connection", "P2024",
                                    Undefined) }

\* The catch block of the try/catch variant of createAudit.
catchBlock(error) ==
    IF error.cls = "PrismaClientKnownRequestError" /\ error.code = "P2003"
    THEN BadRequestException(
           Str("Foreign key constraint failed on the field: "
               \o TemplateString(Get(error.meta, "field_name"))))
    ELSE IF error.cls = "PrismaClientKnownRequestError" /\ error.code = "P2002"
    THEN BadRequestException(
           Str("Unique constraint failed on the field: "
               \o TemplateString(Get(error.meta, "target"))))
    ELSE IF error.cls = "HttpException" THEN error
    ELSE InternalServerErrorException(Str("An unexpected error occurred."))

ReportMissingHelpers ==
    NotFoundException(
      Str("Audit creation failed because there is no valid report with this ID."))

ReportMissingTryCatch(reportId) ==
    NotFoundException(Str("RecyclingReport with ID " \o reportId \o " not found."))

SaveFailed ==
    BadRequestException(
      Str("Audit creation failed due to an issue while saving the audit record."))

MarkFailed ==
    InternalServerErrorException(
      Str("Audit was created, but marking the report as audited failed."))

\* What createAudit throws when the report read of step 1 is rejected.
onFindRejected(error) ==
    IF variant = "helpers" THEN error ELSE catchBlock(error)

onReportMissing_Unexpected(reportId) ==
    catchBlock(Error("RecyclingReport with ID " \o reportId \o " not found."))

\* What createAudit throws when the report read finds nothing.
onReportMissing(reportId) ==
    IF variant = "helpers" THEN ReportMissingHelpers
    ELSE catchBlock(ReportMissingTryCatch(reportId))

\* What createAudit throws when prisma.audit.create is rejected.
onCreateRejected(error) ==
    IF variant = "helpers" THEN SaveFailed ELSE catchBlock(error)

\* What createAudit throws when prisma.recyclingReport.update is rejected.
onUpdateRejected(error) ==
    IF variant = "helpers" THEN MarkFailed ELSE catchBlock(error)

Fail(q, e) ==
    /\ pc' = [pc EXCEPT ![q] = "failed"]
    /\ result' = [result EXCEPT ![q] = Threw(e)]

\* What a call of createAudit does first: the dto is destructured and the
\* report read issued.
Invoke(q, d) ==
    /\ ~Running(q)
    /\ nCalls < MaxCalls
    /\ nCalls' = nCalls + 1
    /\ pc' = [pc EXCEPT ![q] = "findUnique"]
    /\ dto' = [dto EXCEPT ![q] = d]
    /\ auditId' = [auditId EXCEPT ![q] = Undefined]
    /\ ret' = [ret EXCEPT ![q] = NoRet]
    /\ result' = [result EXCEPT ![q] = NoResult]
    /\ calls' = [calls EXCEPT ![q] = << "findUnique" >>]
    /\ alone' = [o \in Reqs |->
                   IF o = q THEN \A x \in Reqs \ {q} : ~Running(x)
                   ELSE IF Running(o) THEN FALSE ELSE alone[o]]
    /\ UNCHANGED << variant, reports, audits, written, first >>

\* createAudit is called by some caller.
Call(q, d) ==
    /\ Invoke(q, d)
    /\ UNCHANGED << ulidNext, filterVars, pipeVars, mutVars >>

\* The store executes prisma.recyclingReport.findUnique({where: {id}}).
StoreFindUnique(q) ==
    /\ pc[q] = "findUnique"
    /\ \E r \in { Resolved(IF dto[q].reportId \in DOMAIN reports
                           THEN Obj(reports[dto[q].reportId]) ELSE Null) }
                  \cup { Rejected(e) : e \in StoreFaults } :
          ret' = [ret EXCEPT ![q] = r]
    /\ pc' = [pc EXCEPT ![q] = "found"]
    /\ UNCHANGED << variant, reports, audits, ulidNext, dto, auditId, result,
                    calls, alone, nCalls, written, first >>
    /\ UNCHANGED << filterVars, pipeVars, mutVars >>

AfterFind_NoExistenceCheck(q) ==
    /\ pc[q] = "found"
    /\ IF ~ret[q].ok
       THEN /\ Fail(q, onFindRejected(ret[q].error))
            /\ UNCHANGED << ulidNext, auditId, calls >>
       ELSE /\ auditId' = [auditId EXCEPT ![q] = Ulid(ulidNext)]
            /\ ulidNext' = ulidNext + 1
            /\ pc' = [pc EXCEPT ![q] = "create"]
            /\ calls' = [calls EXCEPT ![q] = Append(@, "create")]
            /\ UNCHANGED result
    /\ UNCHANGED << variant, reports, audits, dto, ret, alone, nCalls,
                    written, first >>
    /\ UNCHANGED << filterVars, pipeVars, mutVars >>

\* createAudit resumes after the report read: step 1 decides, step 2 is issued.
AfterFind(q) ==
    /\ pc[q] = "found"
    /\ IF ~ret[q].ok
       THEN /\ Fail(q, onFindRejected(ret[q].error))
            /\ UNCHANGED << ulidNext, auditId, calls >>
       ELSE IF ~Truthy(ret[q].value)
       THEN /\ Fail(q, onReportMissing(dto[q].reportId))
            /\ UNCHANGED << ulidNext, auditId, calls >>
       ELSE /\ auditId' = [auditId EXCEPT ![q] = Ulid(ulidNext)]
            /\ ulidNext' = ulidNext + 1
            /\ pc' = [pc EXCEPT ![q] = "create"]
            /\ calls' = [calls EXCEPT ![q] = Append(@, "create")]
            /\ UNCHANGED result
    /\ UNCHANGED << variant, reports, audits, dto, ret, alone, nCalls,
                    written, first >>
    /\ UNCHANGED << filterVars, pipeVars, mutVars >>

AuditRow_FixedId(q) ==
    [id |-> Ulid(0), reportId |-> dto[q].reportId,
     audited |-> dto[q].audited, auditorId |-> dto[q].auditorId]

\* A write of the createAudit call of q, as the store executed it.
Write(op, q) ==
    [op |-> op, q |-> q, reportId |-> dto[q].reportId,
     audited |-> dto[q].audited]

\* The `data` of prisma.audit.create, which is also the row it resolves with.
AuditRow(q) ==
    [id |-> auditId[q], reportId |-> dto[q].reportId,
     audited |-> dto[q].audited, auditorId |-> dto[q].auditorId]

\* The store executes prisma.audit.create({data}): one statement, atomic.
StoreCreate(q) ==
    /\ pc[q] = "create"
    /\ IF \E a \in audits : /\ a.auditorId = dto[q].auditorId
                            /\ a.reportId = dto[q].reportId
       THEN /\ ret' = [ret EXCEPT ![q] = Rejected(
                         PrismaClientKnownRequestError(
                           "Unique constraint failed", "P2002", UniqueMeta))]
            /\ UNCHANGED << audits, written >>
       ELSE \/ /\ audits' = audits \cup {AuditRow(q)}
               /\ written' = Append(written, Write("create", q))
               /\ ret' = [ret EXCEPT ![q] = Resolved(AuditRow(q))]
            \/ /\ \E e \in StoreFaults \cup
                       { PrismaClientKnownRequestError(
                           "Foreign key constraint failed", "P2003",
                           ForeignKeyMeta) } :
                     ret' = [ret EXCEPT ![q] = Rejected(e)]
               /\ UNCHANGED << audits, written >>
    /\ pc' = [pc EXCEPT ![q] = "created"]
    /\ UNCHANGED << variant, reports, ulidNext, dto, auditId, result, calls,
                    alone, nCalls, first >>
    /\ UNCHANGED << filterVars, pipeVars, mutVars >>

AfterCreate_RetryOnce(q) ==
    /\ pc[q] = "created"
    /\ IF ~ret[q].ok /\ Len(calls[q]) = 2
       THEN /\ pc' = [pc EXCEPT ![q] = "create"]
            /\ calls' = [calls EXCEPT ![q] = Append(@, "create")]
            /\ UNCHANGED result
       ELSE IF ~ret[q].ok
       THEN /\ Fail(q, onCreateRejected(ret[q].error))
            /\ UNCHANGED calls
       ELSE /\ pc' = [pc EXCEPT ![q] = "update"]
            /\ calls' = [calls EXCEPT ![q] = Append(@, "update")]
            /\ UNCHANGED result
    /\ UNCHANGED << variant, reports, audits, ulidNext, dto, auditId, ret,
                    alone, nCalls, written, first >>
    /\ UNCHANGED << filterVars, pipeVars, mutVars >>

\* createAudit resumes after the create: step 2 decides, step 3 is issued.
AfterCreate(q) ==
    /\ pc[q] = "created"
    /\ IF ~ret[q].ok
       THEN /\ Fail(q, onCreateRejected(ret[q].error))
            /\ UNCHANGED calls
       ELSE /\ pc' = [pc EXCEPT ![q] = "update"]
            /\ calls' = [calls EXCEPT ![q] = Append(@, "update")]
            /\ UNCHANGED result
    /\ UNCHANGED << variant, reports, audits, ulidNext, dto, auditId, ret,
                    alone, nCalls, written, first >>
    /\ UNCHANGED << filterVars, pipeVars, mutVars >>

UpdateData_FirstWriteWins(q) ==
    [audited |-> IF \E i \in 1..Len(written) :
                       /\ written[i].op = "update"
                       /\ written[i].reportId = dto[q].reportId
                 THEN reports[dto[q].reportId].audited
                 ELSE Bool(dto[q].audited)]

UpdateData_Negated(q) == [audited |-> Bool(~dto[q].audited)]

UpdateData_AlwaysTrue(q) == [audited |-> Bool(TRUE)]

\* The `data` of prisma.recyclingReport.update.
UpdateData(q) == [audited |-> Bool(dto[q].audited)]

\* The store executes prisma.recyclingReport.update({where: {id}, data: {audited}}).
StoreUpdate(q) ==
    /\ pc[q] = "update"
    /\ \/ /\ dto[q].reportId \in DOMAIN reports
          /\ reports' = [reports EXCEPT ![dto[q].reportId] =
                                           Spread(@, UpdateData(q))]
          /\ written' = Append(written, Write("update", q))
          /\ ret' = [ret EXCEPT ![q] = Resolved(Obj(reports'[dto[q].reportId]))]
       \/ /\ \E e \in StoreFaults \cup
                  { PrismaClientKnownRequestError(
                      "Record to update not found", "P2025", Undefined) } :
                ret' = [ret EXCEPT ![q] = Rejected(e)]
          /\ UNCHANGED << reports, written >>
    /\ pc' = [pc EXCEPT ![q] = "updated"]
    /\ UNCHANGED << variant, audits, ulidNext, dto, auditId, result, calls,
                    alone, nCalls, first >>
    /\ UNCHANGED << filterVars, pipeVars, mutVars >>

AfterUpdate_StartsOver(q) ==
    /\ pc[q] = "updated"
    /\ IF ~ret[q].ok
       THEN /\ pc' = [pc EXCEPT ![q] = "findUnique"]
            /\ UNCHANGED result
       ELSE /\ pc' = [pc EXCEPT ![q] = "done"]
            /\ result' = [result EXCEPT ![q] = Returned(AuditRow(q))]
    /\ UNCHANGED << variant, reports, audits, ulidNext, dto, auditId, ret,
                    calls, alone, nCalls, written, first >>
    /\ UNCHANGED << filterVars, pipeVars, mutVars >>

AfterUpdate_DeletesAudit(q) ==
    /\ pc[q] = "updated"
    /\ IF ~ret[q].ok
       THEN /\ Fail(q, onUpdateRejected(ret[q].error))
            /\ audits' = audits \ {AuditRow(q)}
       ELSE /\ pc' = [pc EXCEPT ![q] = "done"]
            /\ result' = [result EXCEPT ![q] = Returned(AuditRow(q))]
            /\ UNCHANGED audits
    /\ UNCHANGED << variant, reports, ulidNext, dto, auditId, ret,
                    calls, alone, nCalls, written, first >>
    /\ UNCHANGED << filterVars, pipeVars, mutVars >>

AfterUpdate_HelpersUndoAudit(q) ==
    /\ pc[q] = "updated"
    /\ IF ~ret[q].ok
       THEN /\ Fail(q, onUpdateRejected(ret[q].error))
            /\ audits' = IF variant = "helpers" THEN audits \ {AuditRow(q)}
                         ELSE audits
       ELSE /\ pc' = [pc EXCEPT ![q] = "done"]
            /\ result' = [result EXCEPT ![q] = Returned(AuditRow(q))]
            /\ UNCHANGED audits
    /\ UNCHANGED << variant, reports, ulidNext, dto, auditId, ret,
                    calls, alone, nCalls, written, first >>
    /\ UNCHANGED << filterVars, pipeVars, mutVars >>

\* createAudit resumes after the update: step 3 decides, the audit is returned.
AfterUpdate(q) ==
    /\ pc[q] = "updated"
    /\ IF ~ret[q].ok
       THEN Fail(q, onUpdateRejected(ret[q].error))
       ELSE /\ pc' = [pc EXCEPT ![q] = "done"]
            /\ result' = [result EXCEPT ![q] = Returned(AuditRow(q))]
    /\ UNCHANGED << variant, reports, audits, ulidNext, dto, auditId, ret,
                    calls, alone, nCalls, written, first >>
    /\ UNCHANGED << filterVars, pipeVars, mutVars >>


-----------------------------------------------------------------------------
(* AuditService.updateAudit and deleteAudit *)

MutReqs == {"m1", "m2"}

AuditIds == {"1", "2"}

UpdateAuditDtos ==
    { [k \in {"audited", "comments"} |-> IF k = "audited" THEN Bool(a) ELSE Null] :
        a \in BOOLEAN }

\* The audit the store holds before any updateAudit / deleteAudit call.
StoredAudit ==
    [id |-> "1", reportId |-> "r1", audited |-> TRUE, auditorId |-> "a1"]

NoMutation ==
    [pc |-> "idle", op |-> "update", id |-> "2", data |-> EmptyObj,
     ret |-> NoRet, result |-> NoResult, calls |-> << >>]

MutationRunning(m) == mut[m].pc \notin {"idle", "done", "failed"}

\* The row with the given id, as prisma.audit.findUnique resolves it.
AuditWithId(id) ==
    IF \E a \in audits : a.id = id
    THEN Obj(CHOOSE a \in audits : a.id = id) ELSE Null

\* What findUniqueOrThrow, update and delete reject with when no row has the id.
RecordNotFound(message) ==
    PrismaClientKnownRequestError(message, "P2025", Undefined)

AuditMissing(id) ==
    NotFoundException(Str("Audit with ID " \o id \o " not found."))

\* The plain JavaScript value of a stored field.
FieldValue(v) == IF v.t = "boolean" THEN v.b ELSE v

\* What a call of updateAudit(id, dto) or deleteAudit(id) does first: the
\* existence read is issued.
InvokeMutation(m, op, id, data) ==
    /\ ~MutationRunning(m)
    /\ nMut < MaxMutations
    /\ nMut' = nMut + 1
    /\ mut' = [mut EXCEPT ![m] =
                 [pc |-> "find", op |-> op, id |-> id,
                  data |-> IF op = "update" THEN data ELSE EmptyObj,
                  ret |-> NoRet, result |-> NoResult,
                  calls |-> << IF variant = "helpers" THEN "findUniqueOrThrow"
                               ELSE "findUnique" >>]]

\* updateAudit or deleteAudit is called by some caller.
CallMutation(m, op, id, data) ==
    /\ InvokeMutation(m, op, id, data)
    /\ UNCHANGED << svcVars, ulidNext, filterVars, pipeVars >>

\* The store executes prisma.audit.findUnique / findUniqueOrThrow({where: {id}}).
StoreFindAudit(m) ==
    /\ mut[m].pc = "find"
    /\ \E r \in { IF variant = "helpers" /\ AuditWithId(mut[m].id) = Null
                  THEN Rejected(RecordNotFound("No Audit found"))
                  ELSE Resolved(AuditWithId(mut[m].id)) }
                  \cup { Rejected(e) : e \in StoreFaults } :
          mut' = [mut EXCEPT ![m].ret = r, ![m].pc = "found"]
    /\ UNCHANGED << svcVars, ulidNext, filterVars, pipeVars, nMut >>

AfterFindAudit_NoCheck(m) ==
    /\ mut[m].pc = "found"
    /\ mut' = [mut EXCEPT ![m] =
                 IF ~mut[m].ret.ok
                 THEN [@ EXCEPT !.pc = "failed",
                                !.result = Threw(mut[m].ret.error)]
                 ELSE [@ EXCEPT !.pc = "mutate",
                                !.calls = Append(@, mut[m].op)]]
    /\ UNCHANGED << svcVars, ulidNext, filterVars, pipeVars, nMut >>

\* The call resumes after the existence read and issues update / delete.
AfterFindAudit(m) ==
    /\ mut[m].pc = "found"
    /\ mut' = [mut EXCEPT ![m] =
                 IF ~mut[m].ret.ok
                 THEN [@ EXCEPT !.pc = "failed",
                                !.result = Threw(mut[m].ret.error)]
                 ELSE IF ~Truthy(mut[m].ret.value)
                 THEN [@ EXCEPT !.pc = "failed",
                                !.result = Threw(AuditMissing(mut[m].id))]
                 ELSE [@ EXCEPT !.pc = "mutate",
                                !.calls = Append(@, mut[m].op)]]
    /\ UNCHANGED << svcVars, ulidNext, filterVars, pipeVars, nMut >>

\* The row prisma.audit.update({where: {id}, data}) leaves in place of `row`.
UpdatedAudit(row, data) ==
    [k \in DOMAIN row \cup DOMAIN data |->
        IF k \in DOMAIN data THEN FieldValue(data[k]) ELSE row[k]]

\* The store executes prisma.audit.update / delete({where: {id}}).
StoreMutate(m) ==
    /\ mut[m].pc = "mutate"
    /\ \/ /\ AuditWithId(mut[m].id) # Null
          /\ LET row == AuditWithId(mut[m].id).o
                 new == UpdatedAudit(row, mut[m].data)
             IN  IF mut[m].op = "update"
                 THEN /\ audits' = (audits \ {row}) \cup {new}
                      /\ mut' = [mut EXCEPT ![m].ret = Resolved(Obj(new)),
                                            ![m].pc = "mutated"]
                 ELSE /\ audits' = audits \ {row}
                      /\ mut' = [mut EXCEPT ![m].ret = Resolved(Obj(row)),
                                            ![m].pc = "mutated"]
       \/ /\ \E e \in (IF AuditWithId(mut[m].id) = Null
                       THEN { RecordNotFound("Record to " \o mut[m].op
                                              \o " not found") }
                       ELSE {}) \cup StoreFaults :
                mut' = [mut EXCEPT ![m].ret = Rejected(e), ![m].pc = "mutated"]
          /\ UNCHANGED audits
    /\ UNCHANGED << variant, reports, pc, dto, auditId, ret, result, calls,
                    alone, nCalls, written, first >>
    /\ UNCHANGED << ulidNext, filterVars, pipeVars, nMut >>

\* The call resumes after update / delete and returns the row.
AfterMutate(m) ==
    /\ mut[m].pc = "mutated"
    /\ mut' = [mut EXCEPT ![m] =
                 IF mut[m].ret.ok
                 THEN [@ EXCEPT !.pc = "done",
                                !.result = Returned(mut[m].ret.value)]
                 ELSE [@ EXCEPT !.pc = "failed",
                                !.result = Threw(mut[m].ret.error)]]
    /\ UNCHANGED << svcVars, ulidNext, filterVars, pipeVars, nMut >>

-----------------------------------------------------------------------------
(* ZodValidationPipe over UpdateAuditSchema *)

\* What zod calls the type of a value in "Expected x, received y".
ZodType(v) ==
    CASE v.t \in {"string", "number", "boolean", "null", "undefined", "array",
                  "date"} -> v.t
      [] OTHER -> "object"

\* The issue z.<type>() raises for the value v at `path`, if any.
typeIssue(expected, v, path) ==
    IF v.t = "undefined"
    THEN << [message |-> Str("Required"), path |-> Arr(path)] >>
    ELSE IF ZodType(v) # expected
    THEN << [message |-> Str("Expected " \o expected \o ", received "
                             \o ZodType(v)),
             path |-> Arr(path)] >>
    ELSE << >>

\* UpdateAuditSchema.parse(value): z.object({ audited: z.boolean(),
\* comments: z.string().nullable() }); the issues come in the order of the keys.
UpdateAuditSchemaIssues(value) ==
    IF ZodType(value) # "object" THEN typeIssue("object", value, << >>)
    ELSE typeIssue("boolean", Get(value, "audited"), << Str("audited") >>)
         \o (IF Get(value, "comments").t = "null" THEN << >>
             ELSE typeIssue("string", Get(value, "comments"),
                            << Str("comments") >>))

\* z.object strips the keys the schema does not name.
UpdateAuditSchemaOutput(value) ==
    Obj([k \in {"audited", "comments"} |-> Get(value, k)])

parse(value) ==
    IF UpdateAuditSchemaIssues(value) = << >>
    THEN Resolved(UpdateAuditSchemaOutput(value))
    ELSE Rejected(ZodError(UpdateAuditSchemaIssues(value)))

\* path.join('.')
RECURSIVE JoinDot(_)
JoinDot(path) ==
    IF Len(path) = 0 THEN ""
    ELSE IF Len(path) = 1 THEN TemplateString(path[1])
    ELSE TemplateString(path[1]) \o "." \o JoinDot(Tail(path))

pipeDetails_FirstIssueOnly(errors) ==
    Arr([i \in 1..(IF Len(errors) = 0 THEN 0 ELSE 1) |->
           Obj([f \in {"field", "message"} |->
                  IF f = "field" THEN Str(JoinDot(errors[i].path.a))
                  ELSE errors[i].message])])

\* error.errors.map((e) => ({ field: e.path.join('.'), message: e.message }))
pipeDetails(errors) ==
    Arr([i \in 1..Len(errors) |->
           Obj([f \in {"field", "message"} |->
                  IF f = "field" THEN Str(JoinDot(errors[i].path.a))
                  ELSE errors[i].message])])

transform_IgnoresIssues(parsed) ==
    IF parsed.ok THEN Returned(parsed.value) ELSE Returned(Obj(EmptyObj))

\* ZodValidationPipe.transform(value), given what schema.parse did.
transform(parsed) ==
    IF parsed.ok THEN Returned(parsed.value)
    ELSE IF parsed.error.cls = "ZodError"
    THEN Threw(BadRequestException(
                 Obj([k \in {"message", "details"} |->
                        IF k = "message" THEN Str("Validation failed")
                        ELSE pipeDetails(parsed.error.errors)])))
    ELSE Threw(parsed.error)

RequestBodies ==
    { Undefined, Str("audited"), Arr(<< >>) }
      \cup { Obj([k \in ks |-> IF k = "audited" THEN a ELSE c]) :
               ks \in SUBSET {"audited", "comments"},
               a \in {Bool(TRUE), Str("yes")},
               c \in {Null, Str("ok"), Num(1)} }

\* A request body reaches the pipe of PUT /audits/:id.
Transform(value) ==
    /\ Len(piped) < MaxPiped
    /\ piped' = Append(piped, [value |-> value, parsed |-> parse(value),
                               outcome |-> transform(parse(value))])
    /\ UNCHANGED << svcVars, filterVars, ulidNext, mutVars >>

-----------------------------------------------------------------------------
(* AuditController: POST /audits and PUT /audits/:id behind their pipes *)

\* CreateAuditSchema.parse(value): reportId a non-empty string, audited a
\* boolean, auditorId a string; the issues come in the order of the keys.
CreateAuditSchemaIssues(value) ==
    IF ZodType(value) # "object" THEN typeIssue("object", value, << >>)
    ELSE (IF Get(value, "reportId") = Str("")
          THEN << [message |-> Str("String must contain at least 1 character(s)"),
                   path |-> Arr(<< Str("reportId") >>)] >>
          ELSE typeIssue("string", Get(value, "reportId"), << Str("reportId") >>))
         \o typeIssue("boolean", Get(value, "audited"), << Str("audited") >>)
         \o typeIssue("string", Get(value, "auditorId"), << Str("auditorId") >>)

CreateAuditSchemaOutput(value) ==
    Obj([k \in {"reportId", "audited", "auditorId"} |-> Get(value, k)])

parseCreate(value) ==
    IF CreateAuditSchemaIssues(value) = << >>
    THEN Resolved(CreateAuditSchemaOutput(value))
    ELSE Rejected(ZodError(CreateAuditSchemaIssues(value)))

PostBodies ==
    { Arr(<< >>) }
      \cup { Obj([k \in ks |->
                    CASE k = "reportId" -> r
                      [] k = "audited" -> a
                      [] OTHER -> Str("a1")]) :
               ks \in { {"reportId", "audited", "auditorId"},
                        {"audited", "auditorId"} },
               r \in {Str("r1"), Str("")},
               a \in {Bool(TRUE), Str("yes")} }

\* const { reportId, audited, auditorId } = createAuditDto
ToCreateAuditDto(v) ==
    [reportId |-> TemplateString(Get(v, "reportId")),
     audited |-> Truthy(Get(v, "audited")),
     auditorId |-> TemplateString(Get(v, "auditorId"))]

\* What one run of a pipe leaves in the history.
Piped(route, value, parsed) ==
    [route |-> route, value |-> value, parsed |-> parsed,
     outcome |-> transform(parsed)]

\* The first argument the pipe rejected, if any.
FirstThrown(entries) ==
    IF \E n \in 1..Len(entries) : entries[n].outcome.kind = "threw"
    THEN entries[CHOOSE n \in 1..Len(entries) :
                   /\ entries[n].outcome.kind = "threw"
                   /\ \A k \in 1..(n - 1) : entries[k].outcome.kind # "threw"].outcome
    ELSE NoResult

\* POST /audits: the pipe runs on the body; create() runs only if it returns.
PostAudits(q, body) ==
    LET entries == << Piped("POST /audits", body, parseCreate(body)) >>
    IN  /\ Len(piped) + Len(entries) <= MaxPiped
        /\ piped' = piped \o entries
        /\ IF FirstThrown(entries).kind = "threw"
           THEN /\ Answer(FirstThrown(entries).error, [url |-> "/v1/audits"])
                /\ UNCHANGED << svcVars, mutVars >>
           ELSE /\ Invoke(q, ToCreateAuditDto(entries[1].outcome.value))
                /\ UNCHANGED << ulidNext, filterVars, mutVars >>

\* PUT /audits/:id: the method-level pipe runs on every argument of update(),
\* the id first; update() runs only if it returns for both.
PutAudits(m, id, body) ==
    LET entries == << Piped("PUT /audits/:id", Str(id), parse(Str(id))),
                      Piped("PUT /audits/:id", body, parse(body)) >>
    IN  /\ Len(piped) + Len(entries) <= MaxPiped
        /\ piped' = piped \o entries
        /\ IF FirstThrown(entries).kind = "threw"
           THEN /\ Answer(FirstThrown(entries).error,
                          [url |-> "/v1/audits/" \o id])
                /\ UNCHANGED << svcVars, mutVars >>
           ELSE /\ InvokeMutation(m, "update", id, entries[2].outcome.value.o)
                /\ UNCHANGED << svcVars, ulidNext, filterVars >>

-----------------------------------------------------------------------------
(* Specifications *)

NoRun == [kind |-> "none"]

NoDto == [reportId |-> "r404", audited |-> FALSE, auditorId |-> "a1"]

Init ==
    /\ variant \in Variants
    /\ reports = [r \in {"r1", "r2"} |->
                    [audited |-> Bool(FALSE), submittedBy |-> Str("user789")]]
    /\ audits = {}
    /\ ulidNext = 0
    /\ pc = [q \in Reqs |-> "idle"]
    /\ dto = [q \in Reqs |-> NoDto]
    /\ auditId = [q \in Reqs |-> Undefined]
    /\ ret = [q \in Reqs |-> NoRet]
    /\ result = [q \in Reqs |-> NoResult]
    /\ calls = [q \in Reqs |-> << >>]
    /\ alone = [q \in Reqs |-> TRUE]
    /\ nCalls = 0
    /\ written = << >>
    /\ first = NoRun
    /\ handled = Undefined
    /\ response = NoResponse
    /\ log = << >>
    /\ clock = 0
    /\ nHandled = 0
    /\ classified = << >>
    /\ piped = << >>
    /\ mut = [m \in MutReqs |-> NoMutation]
    /\ nMut = 0

Next ==
    \/ \E q \in Reqs, d \in CreateAuditDtos : Call(q, d)
    \/ \E q \in Reqs : StoreFindUnique(q)
    \/ \E q \in Reqs : AfterFind(q)
    \/ \E q \in Reqs : StoreCreate(q)
    \/ \E q \in Reqs : AfterCreate(q)
    \/ \E q \in Reqs : StoreUpdate(q)
    \/ \E q \in Reqs : AfterUpdate(q)

Spec == Init /\ [][Next]_vars

\* Every store call eventually returns, and the event loop eventually runs
\* every continuation that is ready.
Fairness ==
    \A q \in Reqs :
        /\ WF_vars(StoreFindUnique(q)) /\ WF_vars(AfterFind(q))
        /\ WF_vars(StoreCreate(q)) /\ WF_vars(AfterCreate(q))
        /\ WF_vars(StoreUpdate(q)) /\ WF_vars(AfterUpdate(q))

FairSpec == Spec /\ Fairness

FilterNext ==
    \E e \in Failures, u \in Urls : Catch(e, [url |-> u])

FilterSpec == Init /\ [][FilterNext]_vars

\* The store already holds one audit, created by an earlier createAudit.
MutInit ==
    /\ variant \in Variants
    /\ reports = [r \in {"r1", "r2"} |->
                    [audited |-> Bool(r = "r1"), submittedBy |-> Str("user789")]]
    /\ audits = {StoredAudit}
    /\ ulidNext = 1
    /\ pc = [q \in Reqs |-> "idle"]
    /\ dto = [q \in Reqs |-> NoDto]
    /\ auditId = [q \in Reqs |-> Undefined]
    /\ ret = [q \in Reqs |-> NoRet]
    /\ result = [q \in Reqs |-> NoResult]
    /\ calls = [q \in Reqs |-> << >>]
    /\ alone = [q \in Reqs |-> TRUE]
    /\ nCalls = 0
    /\ written = << >>
    /\ first = NoRun
    /\ handled = Undefined
    /\ response = NoResponse
    /\ log = << >>
    /\ clock = 0
    /\ nHandled = 0
    /\ classified = << >>
    /\ piped = << >>
    /\ mut = [m \in MutReqs |-> NoMutation]
    /\ nMut = 0

MutNext ==
    \/ \E m \in MutReqs, op \in {"update", "delete"}, id \in AuditIds,
          d \in UpdateAuditDtos : CallMutation(m, op, id, d)
    \/ \E m \in MutReqs : StoreFindAudit(m)
    \/ \E m \in MutReqs : AfterFindAudit(m)
    \/ \E m \in MutReqs : StoreMutate(m)
    \/ \E m \in MutReqs : AfterMutate(m)

MutSpec == MutInit /\ [][MutNext]_vars

RequestNext ==
    \/ \E q \in Reqs, body \in PostBodies : PostAudits(q, body)
    \/ \E m \in MutReqs, id \in AuditIds, body \in RequestBodies :
          PutAudits(m, id, body)

RequestSpec == Init /\ [][RequestNext]_vars

\* The call whose two runs are compared.
Solo == "q1"

\* What the store holds before any createAudit call.
InitialReports ==
    [r \in {"r1", "r2"} |->
       [audited |-> Bool(FALSE), submittedBy |-> Str("user789")]]

\* How the call of q ended under the deployed class: what the store was
\* asked, what it answered last, what it holds and what the caller got.
RunOf(q) ==
    [kind |-> "run", variant |-> variant, dto |-> dto[q], pc |-> pc[q],
     calls |-> calls[q], ret |-> ret[q], result |-> result[q],
     audits |-> audits, reports |-> reports, written |-> written]

\* createAudit is called under the class deployed first.
RunFirst(q, d) ==
    /\ first = NoRun
    /\ pc[q] = "idle"
    /\ Call(q, d)

\* The other AuditService class is deployed, against a store with the content
\* the first run started from.
Redeploy(q) ==
    /\ first = NoRun
    /\ pc[q] \in {"done", "failed"}
    /\ first' = RunOf(q)
    /\ variant' = CHOOSE v \in Variants : v # variant
    /\ reports' = InitialReports
    /\ audits' = {}
    /\ written' = << >>
    /\ ulidNext' = 0
    /\ pc' = [pc EXCEPT ![q] = "idle"]
    /\ UNCHANGED << dto, auditId, ret, result, calls, alone, nCalls >>
    /\ UNCHANGED << filterVars, pipeVars, mutVars >>

\* createAudit is called with the same dto under the other class.
RunAgain(q) ==
    /\ first # NoRun
    /\ pc[q] = "idle"
    /\ Call(q, first.dto)

\* The store answers the n-th operation of the second run as it answered the
\* n-th operation of the first: the same pattern of store outcomes.
SameOutcome(q) ==
    \/ first = NoRun
    \/ LET n == Len(calls[q])
       IN  IF n < Len(first.calls) THEN ret[q].ok
           ELSE IF n = Len(first.calls) THEN ret[q] = first.ret
           ELSE TRUE

EquivNext ==
    \/ \E d \in CreateAuditDtos : RunFirst(Solo, d)
    \/ Redeploy(Solo)
    \/ RunAgain(Solo)
    \/ StoreFindUnique(Solo) /\ SameOutcome(Solo)'
    \/ AfterFind(Solo)
    \/ StoreCreate(Solo) /\ SameOutcome(Solo)'
    \/ AfterCreate(Solo)
    \/ StoreUpdate(Solo) /\ SameOutcome(Solo)'
    \/ AfterUpdate(Solo)

EquivSpec == Init /\ [][EquivNext]_vars

PipeNext ==
    \E v \in RequestBodies : Transform(v)

PipeSpec == Init /\ [][PipeNext]_vars

-----------------------------------------------------------------------------
(* Vocabulary of the claims *)

Ended(q) == pc[q] \in {"done", "failed"}

\* The running or ended call of q failed at its n-th store operation.
FailedAtStep(q, n) == pc[q] = "failed" /\ Len(calls[q]) = n

\* Step 3 failed after step 2 succeeded.
Step3Failed(q) == FailedAtStep(q, 3) /\ ~ret[q].ok

\* A rejection that no branch of either variant recognises by its code.
Unclassified(e) ==
    /\ e.cls # "HttpException"
    /\ ~(e.cls = "PrismaClientKnownRequestError" /\ e.code \in {"P2002", "P2003"})

\* What the caller of the HTTP API sees of a thrown failure.
CallerPair(e) ==
    << getResponseMetadata(e).status, getResponseMetadata(e).message >>

Stepped(q) == pc'[q] # pc[q]

ReportExists(q) == dto[q].reportId \in DOMAIN reports

-----------------------------------------------------------------------------
(* C1: when step 3 of createAudit fails after step 2 succeeded, the audit  *)
(* created in step 2 is still stored when the call ends and the failure    *)
(* thrown names the report-flag update as the step that failed.            *)

C1_Step3FailureNamesStep ==
    \A q \in Reqs :
        Step3Failed(q) =>
            /\ AuditRow(q) \in audits
            /\ result[q] = Threw(MarkFailed)

(* C2: the (status, message) a caller gets for a step-3 failure is never   *)
(* the pair it gets for an unclassified failure of step 1 or step 2.       *)

C2_Step3FailureDistinguishable ==
    \A q \in Reqs : \A o \in Reqs \ {q} :
        ( /\ Step3Failed(q)
          /\ (FailedAtStep(o, 1) \/ FailedAtStep(o, 2))
          /\ ~ret[o].ok
          /\ Unclassified(ret[o].error) )
        => CallerPair(result[q].error) # CallerPair(result[o].error)

(* C3: a createAudit call naming a report that does not exist, whose read  *)
(* the store answers, halts at step 1: it throws a 404 HttpException,      *)
(* issues neither create nor update, and none of its steps changes the     *)
(* audits or any report.                                                   *)

C3_MissingReportState ==
    \A q \in Reqs :
        (pc[q] # "idle" /\ ~ReportExists(q)) =>
            /\ calls[q] = << "findUnique" >>
            /\ pc[q] \in {"findUnique", "found", "failed"}
            /\ (pc[q] = "failed" /\ ret[q].ok) =>
                  /\ result[q].kind = "threw"
                  /\ result[q].error.cls = "HttpException"
                  /\ result[q].error.status = 404
                  /\ getResponseMetadata(result[q].error).status = 404

C3_MissingReportHalts ==
    /\ []C3_MissingReportState
    /\ [][\A q \in Reqs :
            (pc[q] # "idle" /\ ~ReportExists(q) /\ Stepped(q))
               => UNCHANGED << audits, reports >>]_vars

C3_Witness ==
    \E q \in Reqs :
        /\ ~ReportExists(q)
        /\ FailedAtStep(q, 1)
        /\ ret[q].ok
        /\ audits # {}

(* C4: a createAudit call on an existing report, with no store failure and *)
(* no other call overlapping it, returns the created audit with the        *)
(* reportId, auditorId and audited of its input, and at its return the     *)
(* report's audited flag is the input's audited value.                     *)

C4_SuccessfulCall ==
    [][\A q \in Reqs :
          (pc[q] = "updated" /\ pc'[q] = "done" /\ alone[q]) =>
             /\ result'[q].kind = "returned"
             /\ result'[q].value \in audits'
             /\ result'[q].value.reportId = dto[q].reportId
             /\ result'[q].value.auditorId = dto[q].auditorId
             /\ result'[q].value.audited = dto[q].audited
             /\ reports'[dto[q].reportId].audited = Bool(dto[q].audited)]_vars

C4_Witness ==
    \E q \in Reqs :
        /\ pc[q] = "done" /\ alone[q]
        /\ dto[q].audited = FALSE
        /\ reports[dto[q].reportId].audited = Bool(FALSE)
        /\ \E a \in audits : a.audited /\ a.reportId = dto[q].reportId

(* C5: when the store rejects the create of step 2 with a uniqueness       *)
(* violation on (auditorId, reportId), createAudit fails with status 400   *)
(* and a message naming both fields, and the update is never issued.       *)

UniqueMessage == Str("Unique constraint failed on the field: auditorId,reportId")

C5_UniqueViolation ==
    \A q \in Reqs :
        ( /\ FailedAtStep(q, 2)
          /\ ~ret[q].ok
          /\ ret[q].error.cls = "PrismaClientKnownRequestError"
          /\ ret[q].error.code = "P2002" )
        => /\ calls[q] = << "findUnique", "create" >>
           /\ getResponseMetadata(result[q].error).status = 400
           /\ getResponseMetadata(result[q].error).message = UniqueMessage

(* C6: two createAudit calls on the same existing report by distinct       *)
(* auditors, none of whose store operations is rejected, both end in Done, *)
(* each returning its own stored audit, and once both have ended the       *)
(* report's audited flag is the audited input of one of the two. No call  *)
(* ever waits for the other: a running call always has its next step.      *)

\* Some step of the running call of q.
StepOf(q) ==
    \/ StoreFindUnique(q) \/ AfterFind(q)
    \/ StoreCreate(q) \/ AfterCreate(q)
    \/ StoreUpdate(q) \/ AfterUpdate(q)

C6_ConcurrentCalls ==
    \A q \in Reqs :
      /\ Running(q) => ENABLED StepOf(q)
      /\ \A o \in Reqs \ {q} :
        ( /\ Ended(q) /\ Ended(o)
          /\ ret[q].ok /\ ret[o].ok
          /\ ReportExists(q)
          /\ dto[q].reportId = dto[o].reportId
          /\ dto[q].auditorId # dto[o].auditorId )
        => /\ pc[q] = "done" /\ pc[o] = "done"
           /\ result[q] = Returned(AuditRow(q))
           /\ result[o] = Returned(AuditRow(o))
           /\ result[q].value.id # result[o].value.id
           /\ result[q].value.auditorId = dto[q].auditorId
           /\ {result[q].value, result[o].value} \subseteq audits
           /\ reports[dto[q].reportId].audited
                 \in {Bool(dto[q].audited), Bool(dto[o].audited)}

C6_Witness ==
    \E q \in Reqs : \E o \in Reqs \ {q} :
        /\ pc[q] = "done" /\ pc[o] = "done"
        /\ ~alone[q] /\ ~alone[o]
        /\ dto[q].reportId = dto[o].reportId
        /\ dto[q].auditorId # dto[o].auditorId
        /\ dto[q].audited # dto[o].audited
        /\ result[q].value.id = Ulid(0)
        /\ reports[dto[q].reportId].audited = Bool(dto[q].audited)

-----------------------------------------------------------------------------
(* Claims about AllExceptionsFilter, checked under FilterSpec *)

Sent == response.sent = 1

HasErrorId == "errorId" \in DOMAIN response.body

(* C7: the envelope of every handled exception contains an errorId if and  *)
(* only if the classified status code equals 500.                          *)

C8_ErrorIdIffServerErrorClass ==
    Sent =>
        /\ HasErrorId <=> response.status \in 500..599
        /\ response.status \in 400..499 => ~HasErrorId

(* C9: every response whose status is 500-class, also one for an           *)
(* HttpException thrown with status 500 and its own message, carries the   *)
(* fixed generic public message and no text of the failure.                *)

C9_ServerErrorMessageGeneric ==
    (Sent /\ response.status \in 500..599) =>
        response.body["message"] = GenericMessage

(* C10: a failure that is no ZodError, no Prisma known-request error and   *)
(* no HttpException is classified Unexpected: status 500, the fixed public *)
(* message whatever the failure's own message, details null.               *)

KnownShapes == {"ZodError", "PrismaClientKnownRequestError", "HttpException"}

C10_UnknownFailureUnexpected ==
    (Sent /\ handled.cls \notin KnownShapes) =>
        /\ response.status = 500
        /\ response.body["statusCode"] = Num(500)
        /\ response.body["message"] = GenericMessage
        /\ response.body["details"] = Null
        /\ getResponseMetadata(handled) =
              [status |-> 500, message |-> GenericMessage, details |-> Null]

C10_Witness ==
    /\ Sent
    /\ handled = Error("connect ECONNREFUSED 10.0.0.5:5432")
    /\ response.status = 500
    /\ response.body["message"] = GenericMessage
    /\ nHandled = 2

-----------------------------------------------------------------------------
(* Validation failures *)

\* The validation failures the pipe has met so far.
ValidationFailures ==
    { i \in 1..Len(piped) :
        ~piped[i].parsed.ok /\ piped[i].parsed.error.cls = "ZodError" }

IssuesOf(i) == piped[i].parsed.error.errors

\* The `details` of the BadRequestException the pipe threw for the i-th body.
DetailsOf(i) == Get(piped[i].outcome.error.response, "details")

\* The `message.errors` the filter builds from the same ZodError.
ErrorsOf(i) == Get(handleZodError(piped[i].parsed.error).message, "errors")

\* Exactly one entry per issue, in issue order, carrying the issue's message
\* and its path (joined with '.' by the pipe).
OneEntryPerIssue(i) ==
    /\ piped[i].outcome.kind = "threw"
    /\ piped[i].outcome.error.sub = "BadRequestException"
    /\ DetailsOf(i).t = "array"
    /\ Len(DetailsOf(i).a) = Len(IssuesOf(i))
    /\ Len(ErrorsOf(i).a) = Len(IssuesOf(i))
    /\ \A n \in 1..Len(IssuesOf(i)) :
          /\ Get(DetailsOf(i).a[n], "message") = IssuesOf(i)[n].message
          /\ Get(DetailsOf(i).a[n], "field")
               = Str(JoinDot(IssuesOf(i)[n].path.a))
          /\ Get(ErrorsOf(i).a[n], "message") = IssuesOf(i)[n].message
          /\ Get(ErrorsOf(i).a[n], "path") = IssuesOf(i)[n].path

\* Every entry names a field.
EveryEntryHasPath(i) ==
    \A n \in 1..Len(IssuesOf(i)) :
        /\ Get(DetailsOf(i).a[n], "field") # Str("")
        /\ Get(ErrorsOf(i).a[n], "path") # Arr(<< >>)

(* C11 as stated: for every validation failure with N >= 1 issues the      *)
(* payload has exactly N entries in issue order and every entry has a      *)
(* non-empty path/field.                                                   *)

C11_EveryEntryNonEmptyPath ==
    \A i \in ValidationFailures :
        Len(IssuesOf(i)) >= 1 => OneEntryPerIssue(i) /\ EveryEntryHasPath(i)

(* C11: for every validation failure with N >= 1 issues, the details the   *)
(* pipe throws and the message.errors the filter builds both have exactly  *)
(* N entries, in issue order, each with the message and the path of its    *)
(* issue; the path/field of an entry is empty exactly when its issue is    *)
(* about the request body as a whole and not about one of its fields.      *)

C11_OneEntryPerIssue ==
    \A i \in ValidationFailures :
        Len(IssuesOf(i)) >= 1 =>
            /\ OneEntryPerIssue(i)
            /\ \A n \in 1..Len(IssuesOf(i)) :
                  /\ Get(DetailsOf(i).a[n], "field") = Str("")
                       <=> ZodType(piped[i].value) # "object"
                  /\ Get(ErrorsOf(i).a[n], "path") = Arr(<< >>)
                       <=> ZodType(piped[i].value) # "object"

C11_Witness ==
    \E i, j \in ValidationFailures :
        /\ Len(IssuesOf(i)) = 2
        /\ Len(DetailsOf(i).a) = 2
        /\ ZodType(piped[j].value) = "array"
        /\ Len(DetailsOf(j).a) = 1

-----------------------------------------------------------------------------
(* Classification *)

Classifications == 1..Len(classified)

(* C12: classification is deterministic: whenever the same raw failure is  *)
(* classified twice by getResponseMetadata, whatever was classified in     *)
(* between and whatever the filter did meanwhile, the two results have the *)
(* same status, message and details.                                       *)

-----------------------------------------------------------------------------
(* Deliberately thrown HttpExceptions *)

\* The message an HttpException was constructed with.
OwnMessage(e) ==
    IF e.response.t = "object" THEN Get(e.response, "message") ELSE e.response

PassedThrough ==
    Sent /\ handled.cls = "HttpException"
         /\ handled.status # INTERNAL_SERVER_ERROR

(* C13: an HttpException with a status other than 500 passes through the   *)
(* filter unchanged: the HTTP status and the envelope's statusCode are the *)
(* exception's status and the envelope's message is the exception's own    *)
(* message; for NotFoundException(m) that is 404 and m.                    *)

C13_HttpExceptionPassesThrough ==
    PassedThrough =>
        /\ response.status = handled.status
        /\ Get(handled.response, "statusCode") \in {Undefined, Num(handled.status)}
              => response.body["statusCode"] = Num(handled.status)
        /\ response.body["message"] = OwnMessage(handled)
        /\ handled.sub = "NotFoundException" => response.status = NOT_FOUND

C13_Witness ==
    /\ PassedThrough
    /\ handled = NotFoundException(Str("Audit with ID 1 not found."))
    /\ response.status = 404
    /\ response.body["statusCode"] = Num(404)
    /\ response.body["message"] = Str("Audit with ID 1 not found.")

-----------------------------------------------------------------------------
(* Merging of structured payloads *)

EnvelopeFields ==
    {"statusCode", "timestamp", "path", "message", "details", "errorId"}

\* The metadata of the failure handled last.
LastMeta == classified[Len(classified)].meta

\* The fields of the structured payload the classification carries, as
\* JSON shows them.
PayloadFields ==
    IF TypeofObject(LastMeta.message) THEN Json(Props(LastMeta.message))
    ELSE EmptyObj

(* C14: the fields of a structured payload carried by the failure are      *)
(* merged into the envelope only when the response status is not 500: a    *)
(* non-500 envelope has every field of the payload, a 500 envelope has no  *)
(* field besides statusCode, timestamp, path, message, details, errorId.   *)

C14_PayloadMergedOnlyBelow500 ==
    Sent =>
        /\ response.status # INTERNAL_SERVER_ERROR =>
              \A k \in DOMAIN PayloadFields :
                  k \in DOMAIN response.body
                     /\ response.body[k] = PayloadFields[k]
        /\ response.status = INTERNAL_SERVER_ERROR =>
              DOMAIN response.body \subseteq EnvelopeFields
        /\ DOMAIN response.body \ EnvelopeFields # {} =>
              /\ response.status # INTERNAL_SERVER_ERROR
              /\ DOMAIN response.body \ EnvelopeFields
                    \subseteq DOMAIN PayloadFields

C14_Witness ==
    /\ Sent
    /\ response.status = 500
    /\ handled.cls = "HttpException"
    /\ handled.sub = "InternalServerErrorException"
    /\ "error" \in DOMAIN PayloadFields
    /\ "error" \notin DOMAIN response.body
    /\ \E i \in Classifications :
          /\ classified[i].exception.cls = "HttpException"
          /\ classified[i].exception.sub = "NotFoundException"
          /\ classified[i].meta.status = 404

-----------------------------------------------------------------------------
(* Logging *)

\* The failures the specification classifies as Unexpected: those of no
\* known shape, and the HttpExceptions with a 500-class status.
UnexpectedKind(e) ==
    \/ e.cls \notin KnownShapes
    \/ e.cls = "HttpException" /\ e.status >= INTERNAL_SERVER_ERROR

UnexpectedSoFar ==
    { i \in Classifications : UnexpectedKind(classified[i].exception) }

(* C15: handling a failure emits an error-level log record exactly once    *)
(* when the failure is classified Unexpected and never otherwise, so the   *)
(* log holds one record per Unexpected failure handled so far; the record  *)
(* of the failure handled last carries that failure and the errorId of its *)
(* envelope.                                                               *)

C15_ErrorLogIffUnexpected ==
    /\ Len(log) = Cardinality(UnexpectedSoFar)
    /\ \A n \in 1..Len(log) : log[n].level = "error"
    /\ (Sent /\ UnexpectedKind(handled)) =>
          /\ Len(log) >= 1
          /\ log[Len(log)].err = handled
          /\ HasErrorId
          /\ log[Len(log)].errorId = response.body["errorId"]

(* C16: every call of AllExceptionsFilter.catch, whatever the failure is   *)
(* classified as, emits exactly one structured log record: the log holds   *)
(* as many records as failures were handled, and the last record is about  *)
(* the failure handled last.                                               *)

C16_OneLogRecordPerCall ==
    /\ Len(log) = nHandled
    /\ Sent => log[Len(log)].err = handled

-----------------------------------------------------------------------------
(* Order of the classifiers *)

\* The classifiers in the order the claim gives them; the last one is the
\* fallback, which accepts every failure.
Classifiers ==
    << "ZodError", "PrismaClientKnownRequestError", "HttpException",
       "Unexpected" >>

Matches(e, c) == c = "Unexpected" \/ e.cls = c

ResultOf(c, e) ==
    CASE c = "ZodError" -> handleZodError(e)
      [] c = "PrismaClientKnownRequestError" -> handlePrismaError(e)
      [] c = "HttpException" -> httpMetadata(e)
      [] OTHER -> [status |-> 500, message |-> GenericMessage,
                   details |-> Null]

FirstMatch(e) ==
    Classifiers[CHOOSE n \in 1..Len(Classifiers) :
                   /\ Matches(e, Classifiers[n])
                   /\ \A m \in 1..(n - 1) : ~Matches(e, Classifiers[m])]

(* C17: classification applies the classifiers in the order ZodError,      *)
(* Prisma known-request error, HttpException, Unexpected fallback, and the *)
(* first match wins: the metadata of every handled failure is the result   *)
(* of the earliest classifier that accepts it, and of that one only.       *)

C17_FirstMatchingClassifierWins ==
    \A i \in Classifications :
        classified[i].meta
           = ResultOf(FirstMatch(classified[i].exception),
                      classified[i].exception)

C17_Witness ==
    /\ Len(classified) = 2
    /\ FirstMatch(classified[1].exception) = "HttpException"
    /\ classified[1].meta.status = 404
    /\ FirstMatch(classified[2].exception) = "Unexpected"
    /\ classified[2].meta.status = 500

-----------------------------------------------------------------------------
(* Storage-constraint failures *)

StorageFailures ==
    { i \in Classifications :
        classified[i].exception.cls = "PrismaClientKnownRequestError" }

CodeOf(i) == classified[i].exception.code

MetaOf(i) == classified[i].exception.meta

ForeignKeyMessage ==
    Str("Foreign key constraint failed on the field: Audit_reportId_fkey")

(* C18: the classification of a storage-constraint failure is decided by   *)
(* its constraint code alone, not by its text: P2002 gives a message       *)
(* naming the offending fields, P2003 gives 400 and a message naming the   *)
(* offending field, P2025 gives 404, every other code gives the message    *)
(* 'Database error occurred'; details is null in all four cases.           *)

C18_StorageFailureByCode ==
    /\ \A i \in StorageFailures :
          /\ classified[i].meta.details = Null
          /\ (CodeOf(i) = "P2002" /\ MetaOf(i) = UniqueMeta) =>
                classified[i].meta.message = UniqueMessage
          /\ CodeOf(i) = "P2003" =>
                /\ classified[i].meta.status = 400
                /\ MetaOf(i) = ForeignKeyMeta =>
                      classified[i].meta.message = ForeignKeyMessage
          /\ CodeOf(i) = "P2025" => classified[i].meta.status = 404
          /\ CodeOf(i) \notin {"P2002", "P2003", "P2025"} =>
                classified[i].meta.message = Str("Database error occurred")
    /\ \A i, j \in StorageFailures :
          (CodeOf(i) = CodeOf(j) /\ MetaOf(i) = MetaOf(j)) =>
              classified[i].meta = classified[j].meta

C18_Witness ==
    /\ Len(classified) = 2
    /\ StorageFailures = {1, 2}
    /\ CodeOf(1) = "P2002" /\ CodeOf(2) = "P2002"
    /\ MetaOf(1) = UniqueMeta /\ MetaOf(2) = UniqueMeta
    /\ classified[1].exception.message # classified[2].exception.message
    /\ classified[2].meta.message = UniqueMessage

\* The codes the filter has no message of their own for.
OtherCode(i) == CodeOf(i) \notin {"P2002", "P2003", "P2025"}

HandledStorageFailure ==
    Sent /\ handled.cls = "PrismaClientKnownRequestError"

(* C19 as stated: a storage uniqueness violation is answered with status   *)
(* 409, every other rejected write classified as Conflict with 400.        *)

C19_UniqueViolationIs409 ==
    /\ \A i \in StorageFailures :
          /\ CodeOf(i) = "P2002" => classified[i].meta.status = 409
          /\ OtherCode(i) => classified[i].meta.status = 400
    /\ (HandledStorageFailure /\ handled.code = "P2002") =>
          response.status = 409

(* C19: a storage uniqueness violation is answered with status 400, the    *)
(* same status as every other rejected write except a missing record; no   *)
(* storage failure is ever answered with 409.                              *)

C19_UniqueViolationIs400 ==
    /\ \A i \in StorageFailures :
          /\ CodeOf(i) = "P2002" => classified[i].meta.status = 400
          /\ OtherCode(i) => classified[i].meta.status = 400
          /\ classified[i].meta.status # 409
    /\ HandledStorageFailure =>
          /\ response.status # 409
          /\ handled.code = "P2002" =>
                /\ response.status = 400
                /\ response.body["statusCode"] = Num(400)

C19_Witness ==
    /\ HandledStorageFailure
    /\ handled.code = "P2002"
    /\ response.status = 400
    /\ \E i \in StorageFailures : OtherCode(i) /\ classified[i].meta.status = 400

-----------------------------------------------------------------------------
(* Order of the store operations of one createAudit call *)

StepOrder == << "findUnique", "create", "update" >>

\* A store operation of q has been issued and has not returned yet.
Pending(q) == pc[q] \in {"findUnique", "create", "update"}

\* The operation q issued last has returned, successfully.
ReturnedOk(q) == pc[q] \in {"found", "created", "updated"} /\ ret[q].ok

\* q issues a store operation in this step.
IssuesOperation(q) == calls'[q] # calls[q]

\* This step starts a new invocation for q.
Invoked(q) == ~Running(q) /\ pc'[q] = "findUnique"

C20_IssuedInOrder ==
    \A q \in Reqs :
        /\ Len(calls[q]) <= Len(StepOrder)
        /\ \A n \in 1..Len(calls[q]) : calls[q][n] = StepOrder[n]
        /\ pc[q] \in {"findUnique", "found"} => Len(calls[q]) = 1
        /\ pc[q] \in {"create", "created"} => Len(calls[q]) = 2
        /\ pc[q] \in {"update", "updated", "done"} => Len(calls[q]) = 3

(* C20: within one createAudit invocation the store operations are issued  *)
(* strictly in the order report read, audit create, report update: the     *)
(* create is issued only after the read has returned an existing report,   *)
(* the update only after the create has returned the stored audit, and no  *)
(* operation is issued while an earlier one is pending or after an earlier *)
(* one has failed.                                                         *)

C20_StoreOperationsInOrder ==
    /\ []C20_IssuedInOrder
    /\ [][\A q \in Reqs :
            (IssuesOperation(q) /\ ~Invoked(q)) =>
               /\ ~Pending(q)
               /\ pc[q] # "failed"
               /\ ReturnedOk(q)
               /\ calls'[q] = Append(calls[q], StepOrder[Len(calls[q]) + 1])
               /\ pc[q] = "found" =>
                     /\ calls'[q] = << "findUnique", "create" >>
                     /\ ret[q].value # Null
                     /\ ReportExists(q)
               /\ pc[q] = "created" =>
                     /\ calls'[q] = StepOrder
                     /\ ret[q].value \in audits]_vars

C20_Witness ==
    \E q, o \in Reqs :
        /\ pc[q] = "done" /\ calls[q] = StepOrder
        /\ pc[o] = "failed" /\ calls[o] = << "findUnique", "create" >>

-----------------------------------------------------------------------------
(* Retries and results *)

\* How often the invocation of q has issued the store operation op.
TimesIssued(q, op) ==
    Cardinality({ n \in 1..Len(calls[q]) : calls[q][n] = op })

C21_AtMostOnce ==
    \A q \in Reqs :
        /\ \A op \in {"findUnique", "create", "update"} : TimesIssued(q, op) <= 1
        /\ Running(q) => result[q].kind = "none"
        /\ pc[q] = "done" => result[q].kind = "returned"
        /\ pc[q] = "failed" =>
              /\ result[q].kind = "threw"
              /\ result[q].error.cls \in KnownShapes \cup {"Error"}

(* C21: no step is retried: in one createAudit invocation each of report   *)
(* read, audit create and report update is issued at most once, also when  *)
(* it fails, and the invocation delivers exactly one result, the audit or  *)
(* one failure, at the step that ends it and never changes it afterwards.  *)

C21_NoRetryOneResult ==
    /\ []C21_AtMostOnce
    /\ [][\A q \in Reqs :
            /\ (result'[q] # result[q] /\ ~Invoked(q)) =>
                  /\ Running(q) /\ result[q].kind = "none"
                  /\ pc'[q] \in {"done", "failed"}
                  /\ calls'[q] = calls[q]
            /\ (pc[q] \in {"found", "created", "updated"} /\ ~ret[q].ok
                  /\ Stepped(q)) =>
                  /\ pc'[q] = "failed"
                  /\ calls'[q] = calls[q]]_vars

C21_Witness ==
    \E q \in Reqs :
        /\ pc[q] = "failed"
        /\ calls[q] = << "findUnique", "create" >>
        /\ ~ret[q].ok
        /\ result[q].kind = "threw"
        /\ TimesIssued(q, "create") = 1

-----------------------------------------------------------------------------
(* Frame of createAudit *)

\* The audits stored under the id the invocation of q generated.
OwnAudits(q) == { a \in audits : a.id = auditId[q] }

C22_OneAuditPerDone ==
    /\ \A q \in Reqs :
          pc[q] = "done" =>
             /\ OwnAudits(q) = {AuditRow(q)}
             /\ result[q].value = AuditRow(q)
    /\ \A q, o \in Reqs :
          (q # o /\ pc[q] = "done" /\ pc[o] = "done") => auditId[q] # auditId[o]
    /\ Cardinality(audits) >= Cardinality({ q \in Reqs : pc[q] = "done" })

(* C22: after any sequence of createAudit invocations every invocation     *)
(* that reached Done added exactly one audit of its own, so at least as    *)
(* many audits were added as invocations reached Done; no step deletes an  *)
(* audit, creates or deletes a report, or changes anything of a report but *)
(* the audited flag of the report named by the reportId of the invocation. *)

C22_FrameOfCreateAudit ==
    /\ []C22_OneAuditPerDone
    /\ [][/\ audits \subseteq audits'
          /\ audits' # audits =>
                \E q \in Reqs :
                    /\ pc[q] = "create"
                    /\ AuditRow(q) \notin audits
                    /\ audits' = audits \cup {AuditRow(q)}
          /\ DOMAIN reports' = DOMAIN reports
          /\ \A r \in DOMAIN reports :
                /\ DOMAIN reports'[r] = DOMAIN reports[r]
                /\ \A f \in DOMAIN reports[r] \ {"audited"} :
                      reports'[r][f] = reports[r][f]
                /\ reports'[r] # reports[r] =>
                      \E q \in Reqs :
                          /\ pc[q] = "update"
                          /\ dto[q].reportId = r
                          /\ reports'[r].audited = Bool(dto[q].audited)]_vars

C22_Witness ==
    \E q, o \in Reqs :
        /\ pc[q] = "done" /\ pc[o] = "failed"
        /\ Len(calls[o]) = 3
        /\ Cardinality(audits) = 2
        /\ reports["r1"].audited = Bool(TRUE)
        /\ reports["r1"].submittedBy = Str("user789")

-----------------------------------------------------------------------------
(* Failures of step 2 *)

\* The invocation of q ended because its audit.create was rejected.
Step2Failed(q) == FailedAtStep(q, 2) /\ ~ret[q].ok

CauseIs(q, code) ==
    /\ ret[q].error.cls = "PrismaClientKnownRequestError"
    /\ ret[q].error.code = code

\* The message of the HttpException the invocation of q threw.
ThrownMessage(q) == Get(result[q].error.response, "message")

(* C23: a failure of audit.create in step 2 of createAudit is classified   *)
(* by its cause: a uniqueness violation gives a Conflict (a 4xx failure),  *)
(* a foreign-key violation a 400, any other failure a 500 with the message *)
(* 'An unexpected error occurred.'; in every case no audit of the call is  *)
(* stored and the report update is not issued.                             *)

C23_Step2FailureByCause ==
    \A q \in Reqs :
        Step2Failed(q) =>
            /\ result[q].kind = "threw"
            /\ result[q].error.cls = "HttpException"
            /\ CauseIs(q, "P2002") => result[q].error.status \in {400, 409}
            /\ CauseIs(q, "P2003") => result[q].error.status = 400
            /\ (~CauseIs(q, "P2002") /\ ~CauseIs(q, "P2003")) =>
                  /\ result[q].error.status = 500
                  /\ ThrownMessage(q) = Str("An unexpected error occurred.")
            /\ OwnAudits(q) = {}
            /\ calls[q] = << "findUnique", "create" >>

-----------------------------------------------------------------------------
(* updateAudit and deleteAudit *)

\* The existence read of m has returned and found no audit with the id.
FoundNothing(m) ==
    \/ mut[m].ret.ok /\ mut[m].ret.value = Null
    \/ /\ ~mut[m].ret.ok
       /\ mut[m].ret.error.cls = "PrismaClientKnownRequestError"
       /\ mut[m].ret.error.code = "P2025"

\* The existence read of m has returned the audit with the id.
FoundAudit(m) == mut[m].ret.ok /\ mut[m].ret.value # Null

MutationStepped(m) == mut'[m].pc # mut[m].pc

C24_MutationState ==
    \A m \in MutReqs :
        /\ Len(mut[m].calls) <= 2
        /\ Len(mut[m].calls) >= 1 =>
              mut[m].calls[1] \in {"findUnique", "findUniqueOrThrow"}
        /\ Len(mut[m].calls) = 2 => mut[m].calls[2] = mut[m].op
        /\ (mut[m].pc = "failed" /\ Len(mut[m].calls) = 1 /\ FoundNothing(m)) =>
              /\ mut[m].result.kind = "threw"
              /\ getResponseMetadata(mut[m].result.error).status = 404
        /\ mut[m].pc = "done" =>
              /\ Len(mut[m].calls) = 2
              /\ mut[m].result = Returned(mut[m].ret.value)
              /\ mut[m].ret.value.o.id = mut[m].id

(* C24: updateAudit and deleteAudit first read the audit with the given    *)
(* id; when there is none they fail with a failure answered 404 and never  *)
(* issue update or delete, so they change nothing in the store; when there *)
(* is one they issue update, respectively delete, exactly once, for that   *)
(* id only, and return what it resolved.                                   *)

-----------------------------------------------------------------------------
(* Workflow states of createAudit *)

\* Start, ReportVerified, AuditPersisted, ReportFlagUpdated, Done, Failed, as
\* positions of the call: a step is in a state from the moment the previous
\* step has succeeded.
WorkflowState(q) ==
    CASE pc[q] \in {"findUnique", "found"} -> "Start"
      [] pc[q] \in {"create", "created"} -> "ReportVerified"
      [] pc[q] = "update" -> "AuditPersisted"
      [] pc[q] = "updated" ->
           IF ret[q].ok THEN "ReportFlagUpdated" ELSE "AuditPersisted"
      [] pc[q] = "done" -> "Done"
      [] pc[q] = "failed" -> "Failed"
      [] OTHER -> "NotStarted"

Rank(state) ==
    CASE state = "Start" -> 1
      [] state = "ReportVerified" -> 2
      [] state = "AuditPersisted" -> 3
      [] state = "ReportFlagUpdated" -> 4
      [] state = "Done" -> 5
      [] OTHER -> 0

WorkflowStateAfter(q) == WorkflowState(q)'

C25_ForwardOnly ==
    [][\A q \in Reqs :
          (WorkflowStateAfter(q) # WorkflowState(q) /\ ~Invoked(q)) =>
             /\ WorkflowState(q) \notin {"Done", "Failed", "NotStarted"}
             /\ \/ WorkflowStateAfter(q) = "Failed"
                \/ Rank(WorkflowStateAfter(q)) = Rank(WorkflowState(q)) + 1]_vars

(* C25: the workflow state of a createAudit call only moves forward along  *)
(* Start, ReportVerified, AuditPersisted, ReportFlagUpdated, Done, or from *)
(* a non-terminal state to Failed; Done and Failed are left only by a new  *)
(* invocation; and when every store call eventually returns, every started *)
(* invocation eventually reaches Done or Failed.                           *)

C25_ForwardAndTerminates ==
    /\ C25_ForwardOnly
    /\ \A q \in Reqs : Running(q) ~> Ended(q)

C25_Witness ==
    \E q, o \in Reqs :
        /\ WorkflowState(q) = "Done"
        /\ WorkflowState(o) = "Failed" /\ Len(calls[o]) = 3

-----------------------------------------------------------------------------
(* The window between step 2 and step 3 *)

\* The call of q is the only workflow there has been on its report: no other
\* request names the report and no earlier call has left an audit on it.
SingleWorkflow(q) ==
    /\ \A o \in Reqs \ {q} : pc[o] = "idle" \/ dto[o].reportId # dto[q].reportId
    /\ \A a \in audits : a.reportId = dto[q].reportId => a = AuditRow(q)

\* The invocation of q has stored its audit and the report's flag is not the
\* audited value of that audit.
FlagDiffers(q) ==
    /\ pc[q] # "idle"
    /\ OwnAudits(q) # {}
    /\ ReportExists(q)
    /\ \E a \in OwnAudits(q) : reports[dto[q].reportId].audited # Bool(a.audited)

BetweenStep2And3(q) ==
    \/ pc[q] \in {"created", "update"}
    \/ pc[q] = "updated" /\ ~ret[q].ok

(* C26: with a single createAudit workflow on a report, the report's       *)
(* audited flag differs from the audited value of the audit the workflow   *)
(* stored only while the workflow is between step 2 and step 3 or after it *)
(* ended in Failed at step 3; in Done the two are equal.                   *)

C26_InconsistencyWindow ==
    \A q \in Reqs :
        SingleWorkflow(q) =>
            /\ FlagDiffers(q) => BetweenStep2And3(q) \/ Step3Failed(q)
            /\ pc[q] = "done" =>
                  /\ OwnAudits(q) = {AuditRow(q)}
                  /\ reports[dto[q].reportId].audited = Bool(dto[q].audited)

C26_Witness ==
    \E q \in Reqs :
        /\ SingleWorkflow(q)
        /\ FlagDiffers(q)
        /\ pc[q] = "update"
        /\ \E o \in Reqs \ {q} : pc[o] = "failed"

-----------------------------------------------------------------------------
(* Validation gates the workflow *)

\* The pipe runs of the request handled in this step; the body is the last.
NewlyPiped == SubSeq(piped', Len(piped) + 1, Len(piped'))

BodyRejected ==
    /\ Len(piped') > Len(piped)
    /\ ~NewlyPiped[Len(NewlyPiped)].parsed.ok

(* C27: request-shape validation gates the workflow: when the body of a    *)
(* POST /audits or PUT /audits/:id request fails its schema, the request   *)
(* is answered with status 400 and a message, createAudit / updateAudit is *)
(* not invoked and no store operation is issued.                           *)

C27_ValidationGatesWorkflow ==
    [][BodyRejected =>
          /\ response'.sent = 1
          /\ response'.status = 400
          /\ response'.body["statusCode"] = Num(400)
          /\ "message" \in DOMAIN response'.body
          /\ nHandled' = nHandled + 1
          /\ UNCHANGED << pc, dto, calls, nCalls, mut, nMut, audits, reports >>]_vars

C27_Witness ==
    /\ Len(piped) = 2
    /\ piped[1].route = "POST /audits" /\ piped[1].parsed.ok
    /\ piped[2].route = "POST /audits" /\ ~piped[2].parsed.ok
    /\ piped[2].value.t = "object"
    /\ nCalls = 1
    /\ \E q \in Reqs : calls[q] = << "findUnique" >>
    /\ response.sent = 1 /\ response.status = 400
    /\ response.body["message"] = Str("Validation failed")

-----------------------------------------------------------------------------
(* Envelope and response *)

(* C28: for every exception handled by AllExceptionsFilter.catch exactly   *)
(* one response is sent and the statusCode of the envelope equals the HTTP *)
(* status set on the response, also when the failure's own payload, which  *)
(* may itself contain statusCode, path or timestamp, is merged in.         *)

C28_StatusCodeIsHttpStatus ==
    /\ nHandled >= 1 <=> Sent
    /\ Sent =>
          /\ response.body["statusCode"] = Num(response.status)
          /\ response.body["path"] \in { Str(u) : u \in Urls }

-----------------------------------------------------------------------------
(* Concurrent workflows and the flag *)

CreatesOn(r) ==
    SelectSeq(written, LAMBDA w : w.op = "create" /\ w.reportId = r)

UpdatesOn(r) ==
    SelectSeq(written, LAMBDA w : w.op = "update" /\ w.reportId = r)

LastWrite(s) == s[Len(s)]

\* Every workflow on r is Done and none of their writes failed.
SettledOn(r) ==
    /\ \A q \in Reqs : pc[q] \in {"idle", "done"}
    /\ \E q \in Reqs : pc[q] = "done" /\ dto[q].reportId = r
    /\ Len(CreatesOn(r)) = Len(UpdatesOn(r))
    /\ Len(CreatesOn(r)) >= 1

(* C29 as stated: once all workflows on a report are Done without failure, *)
(* the report's flag is the audited value of the audit persisted last.     *)
C29_LastPersistedDeterminesFlag ==
    \A r \in DOMAIN reports :
        SettledOn(r) =>
            reports[r].audited = Bool(LastWrite(CreatesOn(r)).audited)

(* C29, amended: once all workflows on a report are Done without failure,  *)
(* the report's flag is the audited input of the workflow whose step-3     *)
(* update the store executed last, and every workflow's audit is stored.   *)
C29_LastUpdateDeterminesFlag ==
    \A r \in DOMAIN reports :
        SettledOn(r) =>
            /\ reports[r].audited = Bool(LastWrite(UpdatesOn(r)).audited)
            /\ \A q \in Reqs :
                  pc[q] = "done" /\ dto[q].reportId = r => AuditRow(q) \in audits

C29_Witness ==
    /\ SettledOn("r1")
    /\ Len(CreatesOn("r1")) = 2
    /\ LastWrite(CreatesOn("r1")).q # LastWrite(UpdatesOn("r1")).q
    /\ LastWrite(CreatesOn("r1")).audited # LastWrite(UpdatesOn("r1")).audited
    /\ reports["r1"].audited = Bool(LastWrite(UpdatesOn("r1")).audited)

-----------------------------------------------------------------------------
(* The two createAudit variants, checked under EquivSpec *)

\* Both runs of the compared call have ended.
BothRan == first # NoRun /\ pc[Solo] \in {"done", "failed"}

\* The four patterns of store outcomes, by how the first run ended.
Pattern ==
    IF first.pc = "done" THEN "all succeed"
    ELSE IF Len(first.calls) = 3 THEN "update fails"
    ELSE IF Len(first.calls) = 2 THEN "create fails"
    ELSE IF first.ret.ok THEN "report missing"
    ELSE "find fails"

=============================================================================
